---- MODULE Spec2Model ----
(***************************************************************************)
(* Model of the load-testing harness of main.py: the Request Executor      *)
(* (process_image), the three workload generators run by main()            *)
(* (run_sequential_test, run_concurrent_test, run_random_test) and the     *)
(* thread-pool dispatch used by run_concurrent_test.                       *)
(*                                                                         *)
(* Two specifications share the variables:                                 *)
(*   Spec      the whole run of main(); OutcomeRecords carry every field   *)
(*             but the measured duration, which does not influence the     *)
(*             control flow of the run;                                    *)
(*   SpecExec  repeated single calls of process_image against a clock,     *)
(*             with the measured duration and the output file.             *)
(***************************************************************************)
EXTENDS Integers, Sequences, FiniteSets, Bags, TLC

\* ------------------------------------------------------------------ bounds
\* Number of candidate files img0.jpg .. img{NumImages-1}.jpg per folder
\* (range(10) in the source).
NumImages == 3
\* Number of requests of one run that the endpoint may answer with a
\* transport error.
MaxFaults == 1
\* Number of defects of the input tree (a missing folder, a missing file, a
\* file whose resolution cannot be read).
MaxDefects == 1
\* Number of files of a sparse input tree (a tree with few files in all, the
\* other kind of input tree the runs start from).
MaxSparseFiles == 1
\* Largest clock value of SpecExec.
MaxClock == 2
\* Number of calls of process_image in one behaviour of SpecExec.
MaxCalls == 2

\* Length of the list of records handed to generate_summary in SpecSummary.
MaxRecords == 2
\* Largest processing_time of such a record (in tenths of a second).
MaxDuration == 2
\* Largest file_size of such a record (in MB).
MaxSizeMB == 2

\* ------------------------------------------------------- program constants
\* FOLDERS written in the order of string comparison.
FOLDERS_Lexicographic == <<"w1080", "w512">>
\* main.py:18, cut to its first two entries, in the source's order.
FOLDERS == <<"w512", "w1080">>
NumFolders == Len(FOLDERS)
\* main.py:19, scaled down from 10.
MAX_CONCURRENT == 3
\* main.py:197, the literal 5 of min(5, len(all_image_paths)), scaled down.
SAMPLE_SIZE == 2

FolderIds == 1..NumFolders
ImageIds == 0..(NumImages - 1)
\* An image path test_images/<FOLDERS[f]>/img<i>.jpg is the pair <<f, i>>.
Paths == FolderIds \X ImageIds

Min(a, b) == IF a <= b THEN a ELSE b

\* The transport errors requests.post / raise_for_status raise
\* (subclasses of requests.exceptions.RequestException), by str(e).
RequestErrors == {"ConnectionError", "HTTPError"}
Responses == {"ok"} \cup RequestErrors

\* Width of the images of a folder, as get_image_resolution reads it.
WidthOf(f) == IF f = 1 THEN 512 ELSE 1080
HeightOf(f) == WidthOf(f)
\* f"{width}x{height}"
ResolutionOf(f) == IF f = 1 THEN "512x512" ELSE "1080x1080"

VARIABLES
  \* --- the environment
  inputDir,       \* os.path.isdir(INPUT_DIR)
  folderExists,   \* [FolderIds -> BOOLEAN]: os.path.exists(folder_path)
  fileKind,       \* [Paths -> {"ok", "corrupt", "missing"}]
  faults,         \* transport errors the endpoint has answered so far
  outFiles,       \* output paths that hold a written response body
  \* --- main()
  pc,             \* "main" | "seq" | "conc" | "rand" | "report" | "done"
                  \* | "aborted" | "crashed"
  all_results,    \* main's all_results (a bag: arrival order is not kept)
  csvFiles,       \* names of the tables written to SUMMARY_DIR
  warnings,       \* warnings and notices printed
  escaped,        \* exceptions that left process_image, by the place they reached
  \* --- calls of process_image that have started and not returned
  inflight,
  \* --- run_sequential_test
  sFolder, sImage, sequential_results,
  \* --- run_concurrent_test
  cFolder, cpc, workers, images, futures, results, concurrent_results,
  batchIndex,
  \* --- run_random_test
  selected_images, rIndex, random_results,
  \* --- bookkeeping of the dispatches (history)
  dispatched,     \* [{"seq","conc","rand"} -> Nat]: calls of process_image made
  dispatchCount,  \* [Paths -> Nat]: calls per image in run_concurrent_test
  batchSizes,     \* per folder, the sizes of the batches submitted, in order
  \* --- SpecExec
  now, call, returned,
  \* --- SpecSummary: generate_summary and the printing of main
  sum_results,    \* the list of records handed to generate_summary
  summary_df,     \* what generate_summary returned
  spc,            \* "input" | "summarized" | "printed" | "raised"
  printed         \* the folders of the rows printed so far, in order

envVars == <<inputDir, folderExists, fileKind, faults, outFiles>>
mainVars == <<pc, all_results, csvFiles, warnings, escaped>>
seqVars == <<sFolder, sImage, sequential_results>>
concVars == <<cFolder, cpc, workers, images, futures, results,
              concurrent_results, batchIndex>>
randVars == <<selected_images, rIndex, random_results>>
histVars == <<dispatched, dispatchCount, batchSizes>>
execVars == <<now, call, returned>>
sumVars == <<sum_results, summary_df, spc, printed>>
vars == <<envVars, mainVars, inflight, seqVars, concVars, randVars, histVars,
          execVars, sumVars>>

\* ---------------------------------------------------------- process_image
\* The record process_image returns. A key the source leaves out is given
\* its empty value here: error = "" (no 'error' key on success) and
\* concurrency = 0 (no 'concurrency' key until run_concurrent_test sets it).
OutcomeRecord(path, status, error, resolution, width, height) ==
  [folder |-> FOLDERS[path[1]], filename |-> path[2], status |-> status,
   error |-> error, resolution |-> resolution, width |-> width,
   height |-> height, concurrency |-> 0]

\* try: width, height = get_image_resolution(...) except: resolution = "Unknown"
\* (width and height stay unbound when the read fails).
Readable(kind) == kind = "ok"
Resolution(path, kind) == IF Readable(kind) THEN ResolutionOf(path[1]) ELSE "Unknown"

\* The success branch: the response body is written, then the record is
\* built from width and height; an unbound width raises UnboundLocalError,
\* which is no RequestException and leaves process_image.
SuccessOutcome(path, kind) ==
  IF Readable(kind)
  THEN [kind |-> "return", wrote |-> TRUE, exc |-> "",
        rec |-> OutcomeRecord(path, "success", "", Resolution(path, kind),
                              WidthOf(path[1]), HeightOf(path[1]))]
  ELSE [kind |-> "raise", wrote |-> TRUE, exc |-> "UnboundLocalError",
        rec |-> OutcomeRecord(path, "none", "", "Unknown", 0, 0)]

\* ErrorOutcome for an except clause that catches ConnectionError only.
ErrorOutcomeConnectionOnly(path, kind, resp) ==
  IF resp = "ConnectionError"
  THEN [kind |-> "return", wrote |-> FALSE, exc |-> "",
        rec |-> OutcomeRecord(path, "error", resp, Resolution(path, kind),
                              IF Readable(kind) THEN WidthOf(path[1]) ELSE 0,
                              IF Readable(kind) THEN HeightOf(path[1]) ELSE 0)]
  ELSE [kind |-> "raise", wrote |-> FALSE, exc |-> resp,
        rec |-> OutcomeRecord(path, "none", "", "Unknown", 0, 0)]

\* ErrorOutcome when the body is written before raise_for_status: the body
\* of an error response reaches the output file.
ErrorOutcomeWriteBeforeCheck(path, kind, resp) ==
  [kind |-> "return", wrote |-> resp = "HTTPError", exc |-> "",
   rec |-> OutcomeRecord(path, "error", resp, Resolution(path, kind),
                         IF Readable(kind) THEN WidthOf(path[1]) ELSE 0,
                         IF Readable(kind) THEN HeightOf(path[1]) ELSE 0)]

\* The except requests.exceptions.RequestException branch:
\* width if 'width' in locals() else 0.
ErrorOutcome(path, kind, resp) ==
  [kind |-> "return", wrote |-> FALSE, exc |-> "",
   rec |-> OutcomeRecord(path, "error", resp, Resolution(path, kind),
                         IF Readable(kind) THEN WidthOf(path[1]) ELSE 0,
                         IF Readable(kind) THEN HeightOf(path[1]) ELSE 0)]

\* process_image(image_path) for a file of the given kind when the request
\* ends with resp: what the call returns or raises, and whether it wrote the
\* output file.
ProcessImage(path, kind, resp) ==
  IF resp = "ok" THEN SuccessOutcome(path, kind) ELSE ErrorOutcome(path, kind, resp)

\* The responses the endpoint may give to the next request.
NextResponses == {"ok"} \cup (IF faults < MaxFaults THEN RequestErrors ELSE {})
FaultsAfter(resp) == IF resp = "ok" THEN faults ELSE faults + 1
\* output_filename names every output after the folder alone.
OutputPathPerFolder(path) == [dir |-> FOLDERS[path[1]], stem |-> 0, ext |-> "png"]
\* output_path = OUTPUT_DIR / relpath(dirname(image_path), INPUT_DIR)
\*               / (splitext(basename(image_path))[0] + ".png")
\* for the image INPUT_DIR/<folder>/img<i>.jpg.
OutputPath(path) == [dir |-> FOLDERS[path[1]], stem |-> path[2], ext |-> "png"]
OutFilesAfter(path, out) ==
  IF out.wrote THEN outFiles \cup {OutputPath(path)} ELSE outFiles

\* os.path.exists(image_path)
FileExists(path) == fileKind[path] # "missing"

RECURSIVE SeqToBag(_)
SeqToBag(s) == IF s = <<>> THEN EmptyBag ELSE SetToBag({Head(s)}) (+) SeqToBag(Tail(s))

\* -------------------------------------------------------------------- Init
Defects ==
  Cardinality({f \in FolderIds : ~folderExists[f]})
  + Cardinality({p \in Paths : folderExists[p[1]] /\ fileKind[p] # "ok"})

InitEnv ==
  /\ inputDir \in BOOLEAN
  /\ folderExists \in [FolderIds -> BOOLEAN]
  /\ fileKind \in [Paths -> {"ok", "corrupt", "missing"}]
  /\ inputDir => \/ Defects <= MaxDefects
                 \/ /\ Cardinality({p \in Paths : fileKind[p] # "missing"}) <= MaxSparseFiles
                    /\ \A p \in Paths : fileKind[p] # "corrupt"
  /\ ~inputDir => \A f \in FolderIds : ~folderExists[f]
  /\ \A p \in Paths : ~folderExists[p[1]] => fileKind[p] = "missing"
  /\ faults = 0
  /\ outFiles = {}

InitRun ==
  /\ pc = "main"
  /\ all_results = EmptyBag
  /\ csvFiles = {}
  /\ warnings = {}
  /\ escaped = {}
  /\ inflight = {}
  /\ sFolder = 1 /\ sImage = 0 /\ sequential_results = <<>>
  /\ cFolder = 1 /\ cpc = "folder" /\ workers = 2 /\ images = <<>>
  /\ futures = <<>> /\ results = <<>> /\ concurrent_results = EmptyBag
  /\ batchIndex = 0
  /\ selected_images = <<>> /\ rIndex = 0 /\ random_results = <<>>
  /\ dispatched = [ph \in {"seq", "conc", "rand"} |-> 0]
  /\ dispatchCount = [p \in Paths |-> 0]
  /\ batchSizes = [f \in FolderIds |-> <<>>]

InitExec == now = 0 /\ call = <<>> /\ returned = <<>>

\* No summary has been asked for.
NoSummary == [kind |-> "unset", rows |-> <<>>]
InitSum ==
  /\ sum_results = <<>> /\ summary_df = NoSummary /\ spc = "input"
  /\ printed = <<>>

Init == InitEnv /\ InitRun /\ InitExec /\ InitSum

\* ------------------------------------------------------------------ main()
\* MainAbort without the return: the error is printed and the run goes on.
MainAbortWithoutReturn ==
  /\ pc = "main" /\ ~inputDir
  /\ pc' = "seq"
  /\ warnings' = warnings \cup {<<"main", "no_input_dir", 0, 0>>}
  /\ UNCHANGED <<envVars, all_results, csvFiles, escaped, inflight, seqVars,
                 concVars, randVars, histVars, execVars, sumVars>>

\* if not os.path.isdir(INPUT_DIR): print error; return
MainAbort ==
  /\ pc = "main" /\ ~inputDir
  /\ pc' = "aborted"
  /\ warnings' = warnings \cup {<<"main", "no_input_dir", 0, 0>>}
  /\ UNCHANGED <<envVars, all_results, csvFiles, escaped, inflight, seqVars,
                 concVars, randVars, histVars, execVars, sumVars>>

\* The missing-folder warning, then the call of run_sequential_test.
MainStart ==
  /\ pc = "main" /\ inputDir
  /\ pc' = "seq"
  /\ warnings' = warnings \cup
       {<<"main", "folder_missing", f, 0>> : f \in {g \in FolderIds : ~folderExists[g]}}
  /\ sFolder' = 1 /\ sImage' = 0 /\ sequential_results' = <<>>
  /\ UNCHANGED <<envVars, all_results, csvFiles, escaped, inflight, concVars,
                 randVars, histVars, execVars, sumVars>>

\* ----------------------------------------------------- run_sequential_test
\* if not os.path.exists(folder_path): warning; continue
SeqSkipFolder ==
  /\ pc = "seq" /\ sFolder <= NumFolders /\ ~folderExists[sFolder]
  /\ warnings' = warnings \cup {<<"seq", "folder_missing", sFolder, 0>>}
  /\ sFolder' = sFolder + 1 /\ sImage' = 0
  /\ UNCHANGED <<envVars, pc, all_results, csvFiles, escaped, inflight,
                 sequential_results, concVars, randVars, histVars, execVars, sumVars>>

\* else: print warning (image not found)
SeqSkipImage ==
  /\ pc = "seq" /\ sFolder <= NumFolders /\ folderExists[sFolder]
  /\ sImage < NumImages /\ ~FileExists(<<sFolder, sImage>>)
  /\ warnings' = warnings \cup {<<"seq", "image_missing", sFolder, sImage>>}
  /\ sImage' = sImage + 1
  /\ UNCHANGED <<envVars, pc, all_results, csvFiles, escaped, inflight, sFolder,
                 sequential_results, concVars, randVars, histVars, execVars, sumVars>>

\* The loop body is a plain call: the next call starts when none is running.
SeqIdle == inflight = {}

\* result = process_image(image_path): the call starts.
SeqStart ==
  /\ pc = "seq" /\ sFolder <= NumFolders /\ folderExists[sFolder]
  /\ sImage < NumImages /\ FileExists(<<sFolder, sImage>>)
  /\ SeqIdle
  /\ inflight' = inflight \cup
       {[phase |-> "seq", path |-> <<sFolder, sImage>>, folder |-> sFolder, level |-> 1]}
  /\ dispatched' = [dispatched EXCEPT !["seq"] = @ + 1]
  /\ UNCHANGED <<envVars, mainVars, seqVars, concVars, randVars, dispatchCount,
                 batchSizes, execVars, sumVars>>

\* The call returns and results.append(result), or it raises: nothing in
\* run_sequential_test or main catches, the program ends with the traceback.
SeqFinish ==
  /\ pc = "seq"
  /\ \E c \in inflight, resp \in NextResponses :
       LET out == ProcessImage(c.path, fileKind[c.path], resp) IN
       /\ c.phase = "seq"
       /\ inflight' = inflight \ {c}
       /\ faults' = FaultsAfter(resp)
       /\ outFiles' = OutFilesAfter(c.path, out)
       /\ IF out.kind = "return"
          THEN /\ sequential_results' = Append(sequential_results, out.rec)
               /\ sImage' = sImage + 1
               /\ UNCHANGED <<pc, escaped>>
          ELSE /\ pc' = "crashed"
               /\ escaped' = escaped \cup {<<"seq", "generator">>, <<"seq", "driver">>}
               /\ UNCHANGED <<sequential_results, sImage>>
  /\ UNCHANGED <<inputDir, folderExists, fileKind, all_results, csvFiles,
                 warnings, sFolder, concVars, randVars, histVars, execVars, sumVars>>

\* The inner for loop is exhausted: next folder.
SeqNextFolder ==
  /\ pc = "seq" /\ sFolder <= NumFolders /\ folderExists[sFolder]
  /\ sImage = NumImages /\ inflight = {}
  /\ sFolder' = sFolder + 1 /\ sImage' = 0
  /\ UNCHANGED <<envVars, mainVars, inflight, sequential_results, concVars,
                 randVars, histVars, execVars, sumVars>>

\* return results; main extends all_results, writes sequential_results.csv
\* and calls run_concurrent_test.
SeqReturn ==
  /\ pc = "seq" /\ sFolder = NumFolders + 1 /\ inflight = {}
  /\ all_results' = all_results (+) SeqToBag(sequential_results)
  /\ csvFiles' = csvFiles \cup {<<"sequential_results", 0, 0>>}
  /\ pc' = "conc"
  /\ cFolder' = 1 /\ cpc' = "folder" /\ concurrent_results' = EmptyBag
  /\ UNCHANGED <<envVars, warnings, escaped, inflight, seqVars, workers, images,
                 futures, results, batchIndex, randVars, histVars, execVars, sumVars>>

\* ----------------------------------------------------- run_concurrent_test
\* A future that holds no result yet.
NoOutcome ==
  [kind |-> "none", wrote |-> FALSE, exc |-> "",
   rec |-> OutcomeRecord(<<1, 0>>, "none", "", "Unknown", 0, 0)]

RECURSIVE ExistingFrom(_, _)
\* [img for img in images if os.path.exists(img)], in the order of range().
ExistingFrom(f, i) ==
  IF i >= NumImages THEN <<>>
  ELSE IF FileExists(<<f, i>>) THEN <<(<<f, i>>)>> \o ExistingFrom(f, i + 1)
  ELSE ExistingFrom(f, i + 1)
FolderImages(f) == ExistingFrom(f, 0)

\* if not os.path.exists(folder_path): warning; continue
ConcSkipFolder ==
  /\ pc = "conc" /\ cpc = "folder" /\ cFolder <= NumFolders
  /\ ~folderExists[cFolder]
  /\ warnings' = warnings \cup {<<"conc", "folder_missing", cFolder, 0>>}
  /\ cFolder' = cFolder + 1
  /\ UNCHANGED <<envVars, pc, all_results, csvFiles, escaped, inflight, seqVars,
                 cpc, workers, images, futures, results, concurrent_results,
                 batchIndex, randVars, histVars, execVars, sumVars>>

\* if not images: print; continue
ConcNoImages ==
  /\ pc = "conc" /\ cpc = "folder" /\ cFolder <= NumFolders
  /\ folderExists[cFolder] /\ FolderImages(cFolder) = <<>>
  /\ warnings' = warnings \cup {<<"conc", "no_images", cFolder, 0>>}
  /\ cFolder' = cFolder + 1
  /\ images' = <<>>
  /\ UNCHANGED <<envVars, pc, all_results, csvFiles, escaped, inflight, seqVars,
                 cpc, workers, futures, results, concurrent_results,
                 batchIndex, randVars, histVars, execVars, sumVars>>

\* FirstLevel as range(1, ...) would give it.
FirstLevelFromOne == 2 - 1
\* The first concurrency level of range(2, MAX_CONCURRENT + 1).
FirstLevel == 2
\* The level that follows w in range(2, MAX_CONCURRENT + 1).
NextLevel(w) == w + 1
\* The loop over range(2, MAX_CONCURRENT + 1) still has the level w.
LevelInRange(w) == w <= MAX_CONCURRENT

\* The folder has images: the loop over the concurrency levels is entered.
ConcEnterFolder ==
  /\ pc = "conc" /\ cpc = "folder" /\ cFolder <= NumFolders
  /\ folderExists[cFolder] /\ FolderImages(cFolder) # <<>>
  /\ images' = FolderImages(cFolder)
  /\ workers' = FirstLevel
  /\ batchIndex' = 0
  /\ cpc' = "level"
  /\ UNCHANGED <<envVars, mainVars, inflight, seqVars, cFolder, futures, results,
                 concurrent_results, randVars, histVars, execVars, sumVars>>

\* BatchItems for batches that partition the images: the first w of them.
BatchItemsSlice(imgs, w) == SubSeq(imgs, 1, Min(w, Len(imgs)))
\* The items one batch submits: {executor.submit(process_image, image): image
\* for image in images}.
BatchItems(imgs, w) == imgs

\* results = []; the executor is created and every item of the batch is
\* submitted.
ConcSubmit ==
  /\ pc = "conc" /\ cpc = "level" /\ LevelInRange(workers)
  /\ results' = <<>>
  /\ futures' = [k \in 1..Len(BatchItems(images, workers)) |->
                   [path |-> BatchItems(images, workers)[k], st |-> "pending",
                    out |-> NoOutcome]]
  /\ cpc' = "batch"
  /\ dispatched' = [dispatched EXCEPT !["conc"] = @ + Len(BatchItems(images, workers))]
  /\ dispatchCount' =
       [p \in Paths |->
          dispatchCount[p]
          + Cardinality({k \in 1..Len(BatchItems(images, workers)) :
                           BatchItems(images, workers)[k] = p})]
  /\ batchSizes' = [batchSizes EXCEPT
                      ![cFolder] = Append(@, Len(BatchItems(images, workers)))]
  /\ UNCHANGED <<envVars, mainVars, inflight, seqVars, cFolder, workers, images,
                 concurrent_results, batchIndex, randVars, execVars, sumVars>>

Running == {k \in DOMAIN futures : futures[k].st = "running"}
Pending == {k \in DOMAIN futures : futures[k].st = "pending"}

\* PoolHasIdleWorker with the bound off by one.
PoolHasIdleWorkerOffByOne(k) == Cardinality(Running) <= k
\* ThreadPoolExecutor(max_workers=k): a queued item is taken by a worker
\* thread only while fewer than k threads are busy.
PoolHasIdleWorker(k) == Cardinality(Running) < k

\* A worker thread takes the oldest queued item and calls process_image.
WorkerStart ==
  /\ pc = "conc" /\ cpc = "batch"
  /\ \E k \in Pending :
       /\ \A j \in Pending : k <= j
       /\ PoolHasIdleWorker(workers)
       /\ futures' = [futures EXCEPT ![k].st = "running"]
       /\ inflight' = inflight \cup
            {[phase |-> "conc", path |-> futures[k].path, folder |-> cFolder,
              level |-> workers]}
  /\ UNCHANGED <<envVars, mainVars, seqVars, cFolder, cpc, workers, images,
                 results, concurrent_results, batchIndex, randVars, histVars,
                 execVars, sumVars>>

\* WorkerFinish for a worker that appends its record to the shared list
\* itself, besides returning it.
WorkerFinishAppends ==
  /\ pc = "conc" /\ cpc = "batch"
  /\ \E k \in Running, resp \in NextResponses :
       LET out == ProcessImage(futures[k].path, fileKind[futures[k].path], resp) IN
       /\ futures' = [futures EXCEPT ![k].st = "finished", ![k].out = out]
       /\ inflight' = {c \in inflight : ~(c.phase = "conc" /\ c.path = futures[k].path)}
       /\ faults' = FaultsAfter(resp)
       /\ outFiles' = OutFilesAfter(futures[k].path, out)
       /\ results' = IF out.kind = "return" THEN Append(results, out.rec) ELSE results
  /\ UNCHANGED <<inputDir, folderExists, fileKind, mainVars, seqVars, cFolder,
                 cpc, workers, images, concurrent_results, batchIndex,
                 randVars, histVars, execVars, sumVars>>

\* The call of a worker thread ends: the future holds the returned record or
\* the raised exception.
WorkerFinish ==
  /\ pc = "conc" /\ cpc = "batch"
  /\ \E k \in Running, resp \in NextResponses :
       LET out == ProcessImage(futures[k].path, fileKind[futures[k].path], resp) IN
       /\ futures' = [futures EXCEPT ![k].st = "finished", ![k].out = out]
       /\ inflight' = {c \in inflight : ~(c.phase = "conc" /\ c.path = futures[k].path)}
       /\ faults' = FaultsAfter(resp)
       /\ outFiles' = OutFilesAfter(futures[k].path, out)
  /\ UNCHANGED <<inputDir, folderExists, fileKind, mainVars, seqVars, cFolder,
                 cpc, workers, images, results, concurrent_results, batchIndex,
                 randVars, histVars, execVars, sumVars>>

\* result['concurrency'] = workers
WithConcurrency(rec, w) == [rec EXCEPT !.concurrency = w]

\* as_completed yields a finished future to the collecting thread:
\* future.result() gives the record, which is tagged and appended, or
\* re-raises the worker's exception, which is printed and nothing appended.
Collect ==
  /\ pc = "conc" /\ cpc = "batch"
  /\ \E k \in DOMAIN futures :
       /\ futures[k].st = "finished"
       /\ futures' = [futures EXCEPT ![k].st = "collected"]
       /\ IF futures[k].out.kind = "return"
          THEN /\ results' = Append(results, WithConcurrency(futures[k].out.rec, workers))
               /\ UNCHANGED <<warnings, escaped>>
          ELSE /\ warnings' = warnings \cup
                    {<<"conc", "executor_error", cFolder, futures[k].path[2]>>}
               /\ escaped' = escaped \cup {<<"conc", "generator">>}
               /\ UNCHANGED results
  /\ UNCHANGED <<envVars, pc, all_results, csvFiles, inflight, seqVars, cFolder,
                 cpc, workers, images, concurrent_results, batchIndex, randVars,
                 histVars, execVars, sumVars>>

\* BatchDrained for a loop that leaves at the first collected future.
BatchDrainedFirst == \E k \in DOMAIN futures : futures[k].st = "collected"
\* The as_completed loop has yielded every future and the with block has
\* left (shutdown(wait=True)).
BatchDrained == \A k \in DOMAIN futures : futures[k].st = "collected"

\* df.to_csv(concurrent_<folder>_w<workers>.csv); all_results.extend(results);
\* time.sleep(1); next level.
ConcBatchEnd ==
  /\ pc = "conc" /\ cpc = "batch"
  /\ BatchDrained
  /\ csvFiles' = csvFiles \cup {<<"concurrent", cFolder, workers>>}
  /\ concurrent_results' = concurrent_results (+) SeqToBag(results)
  /\ workers' = NextLevel(workers)
  /\ batchIndex' = batchIndex + 1
  /\ cpc' = "level"
  /\ futures' = <<>>
  /\ UNCHANGED <<envVars, pc, all_results, warnings, escaped, inflight, seqVars,
                 cFolder, images, results, randVars, histVars, execVars, sumVars>>

\* range(2, MAX_CONCURRENT + 1) is exhausted: next folder.
ConcNextFolder ==
  /\ pc = "conc" /\ cpc = "level" /\ ~LevelInRange(workers)
  /\ cFolder' = cFolder + 1
  /\ cpc' = "folder"
  /\ UNCHANGED <<envVars, mainVars, inflight, seqVars, workers, images, futures,
                 results, concurrent_results, batchIndex, randVars, histVars,
                 execVars, sumVars>>

\* return all_results; main extends its all_results and calls run_random_test.
ConcReturn ==
  /\ pc = "conc" /\ cpc = "folder" /\ cFolder = NumFolders + 1
  /\ all_results' = all_results (+) concurrent_results
  /\ pc' = "rand"
  /\ rIndex' = 0 /\ selected_images' = <<>> /\ random_results' = <<>>
  /\ UNCHANGED <<envVars, csvFiles, warnings, escaped, inflight, seqVars,
                 concVars, histVars, execVars, sumVars>>

\* --------------------------------------------------------- run_random_test
\* all_image_paths: every existing image of every existing folder.
AllImagePaths == {p \in Paths : folderExists[p[1]] /\ FileExists(p)}

\* SampleSize for a phase that skips sampling when the pool is too small.
SampleSizeOrNothing(n) == IF n < SAMPLE_SIZE THEN 0 ELSE SAMPLE_SIZE
\* sample_size = min(5, len(all_image_paths))
SampleSize(n) == Min(SAMPLE_SIZE, n)

\* random.sample(pool, n): the lists of n distinct elements of pool.
Samples(pool, n) ==
  {s \in [1..n -> pool] : \A i, j \in 1..n : i # j => s[i] # s[j]}

\* selected_images = random.sample(...); print("Selected <n> random images").
RandSelect ==
  /\ pc = "rand" /\ rIndex = 0
  /\ \E s \in Samples(AllImagePaths, SampleSize(Cardinality(AllImagePaths))) :
       selected_images' = s
  /\ rIndex' = 1
  /\ warnings' = warnings \cup
       {<<"rand", "selected", SampleSize(Cardinality(AllImagePaths)), 0>>}
  /\ UNCHANGED <<envVars, pc, all_results, csvFiles, escaped, inflight, seqVars,
                 concVars, random_results, histVars, execVars, sumVars>>

\* RandStart for a pool of sample_size workers: the next sampled image
\* starts whether or not an earlier call has returned.
RandStartPooled ==
  /\ pc = "rand" /\ rIndex >= 1 /\ dispatched["rand"] < Len(selected_images)
  /\ inflight' = inflight \cup
       {[phase |-> "rand", path |-> selected_images[dispatched["rand"] + 1],
         folder |-> selected_images[dispatched["rand"] + 1][1],
         level |-> Len(selected_images)]}
  /\ dispatched' = [dispatched EXCEPT !["rand"] = @ + 1]
  /\ UNCHANGED <<envVars, mainVars, seqVars, concVars, randVars, dispatchCount,
                 batchSizes, execVars, sumVars>>

\* result = process_image(image_path): the call starts.
RandStart ==
  /\ pc = "rand" /\ rIndex >= 1 /\ rIndex <= Len(selected_images)
  /\ inflight = {}
  /\ inflight' = {[phase |-> "rand", path |-> selected_images[rIndex],
                   folder |-> selected_images[rIndex][1], level |-> 1]}
  /\ dispatched' = [dispatched EXCEPT !["rand"] = @ + 1]
  /\ UNCHANGED <<envVars, mainVars, seqVars, concVars, randVars, dispatchCount,
                 batchSizes, execVars, sumVars>>

\* The call returns and results.append(result), or it raises and the program
\* ends with the traceback.
RandFinish ==
  /\ pc = "rand"
  /\ \E c \in inflight, resp \in NextResponses :
       LET out == ProcessImage(c.path, fileKind[c.path], resp) IN
       /\ c.phase = "rand"
       /\ inflight' = inflight \ {c}
       /\ faults' = FaultsAfter(resp)
       /\ outFiles' = OutFilesAfter(c.path, out)
       /\ IF out.kind = "return"
          THEN /\ random_results' = Append(random_results, out.rec)
               /\ rIndex' = rIndex + 1
               /\ UNCHANGED <<pc, escaped>>
          ELSE /\ pc' = "crashed"
               /\ escaped' = escaped \cup {<<"rand", "generator">>, <<"rand", "driver">>}
               /\ UNCHANGED <<random_results, rIndex>>
  /\ UNCHANGED <<inputDir, folderExists, fileKind, all_results, csvFiles,
                 warnings, seqVars, concVars, selected_images, histVars, execVars, sumVars>>

\* return results; main extends all_results and writes random_results.csv
\* and all_results.csv.
RandReturn ==
  /\ pc = "rand" /\ rIndex = Len(selected_images) + 1 /\ inflight = {}
  /\ all_results' = all_results (+) SeqToBag(random_results)
  /\ csvFiles' = csvFiles \cup {<<"random_results", 0, 0>>, <<"all_results", 0, 0>>}
  /\ pc' = "report"
  /\ UNCHANGED <<envVars, warnings, escaped, inflight, seqVars, concVars,
                 randVars, histVars, execVars, sumVars>>

\* summary_df = generate_summary(all_results); summary.csv is written when
\* the summary is neither None nor empty, that is when a record succeeded.
MainReport ==
  /\ pc = "report"
  /\ csvFiles' = csvFiles \cup
       (IF \E r \in BagToSet(all_results) : r.status = "success"
        THEN {<<"summary", 0, 0>>} ELSE {})
  /\ pc' = "done"
  /\ UNCHANGED <<envVars, all_results, warnings, escaped, inflight, seqVars,
                 concVars, randVars, histVars, execVars, sumVars>>

Next ==
  \/ MainAbort \/ MainStart
  \/ SeqSkipFolder \/ SeqSkipImage \/ SeqStart \/ SeqFinish \/ SeqNextFolder
  \/ SeqReturn
  \/ ConcSkipFolder \/ ConcNoImages \/ ConcEnterFolder \/ ConcSubmit
  \/ WorkerStart \/ WorkerFinish \/ Collect \/ ConcBatchEnd \/ ConcNextFolder
  \/ ConcReturn
  \/ RandSelect \/ RandStart \/ RandFinish \/ RandReturn
  \/ MainReport

Spec == Init /\ [][Next]_vars

TypeOK == pc \in {"main", "seq", "conc", "rand", "report", "done", "aborted", "crashed"}

\* ------------------------------------------- process_image against a clock
\* time.time() - start_time
Elapsed(start_time, end_time) == end_time - start_time

\* The returned record with its 'processing_time'.
TimedRecord(rec, t) ==
  [folder |-> rec.folder, filename |-> rec.filename, status |-> rec.status,
   error |-> rec.error, resolution |-> rec.resolution, width |-> rec.width,
   height |-> rec.height, concurrency |-> rec.concurrency, processing_time |-> t]

\* A caller calls process_image on a file that exists; the resolution is
\* read, the file opened and start_time = time.time() taken.
ExecCall ==
  /\ call = <<>>
  /\ Len(returned) < MaxCalls
  /\ \E p \in Paths :
       /\ FileExists(p)
       /\ call' = <<[path |-> p, start_time |-> now, hung |-> FALSE]>>
  /\ UNCHANGED <<envVars, mainVars, inflight, seqVars, concVars, randVars,
                 histVars, now, returned, sumVars>>

\* The clock advances (time.time() read as non-decreasing).
ExecTick ==
  /\ now < MaxClock
  /\ now' = now + 1
  /\ UNCHANGED <<envVars, mainVars, inflight, seqVars, concVars, randVars,
                 histVars, call, returned, sumVars>>

\* The endpoint keeps the connection open and will never answer the request
\* that is under way.
ExecHang ==
  /\ call # <<>> /\ ~call[1].hung
  /\ call' = <<[call[1] EXCEPT !.hung = TRUE]>>
  /\ UNCHANGED <<envVars, mainVars, inflight, seqVars, concVars, randVars,
                 histVars, now, returned, sumVars>>

\* requests.post(API_ENDPOINT, files=files) is called without a timeout: it
\* returns or raises only once the endpoint has answered or failed.
RequestCanEnd(c) == ~c.hung

\* The request ends (a response with success status, or a RequestException
\* out of requests.post or raise_for_status) and the call returns or raises.
ExecRespond ==
  /\ call # <<>>
  /\ RequestCanEnd(call[1])
  /\ \E resp \in Responses :
       LET c == call[1]
           out == ProcessImage(c.path, fileKind[c.path], resp) IN
       /\ returned' = Append(returned,
            [path |-> c.path, resp |-> resp, kind |-> out.kind, exc |-> out.exc,
               rec |-> TimedRecord(out.rec, Elapsed(c.start_time, now)),
               sent_at |-> c.start_time, observed_at |-> now,
               had_output |-> OutputPath(c.path) \in outFiles,
               wrote |-> out.wrote,
               outputs_before |-> outFiles,
               outputs_after |-> OutFilesAfter(c.path, out)])
       /\ outFiles' = OutFilesAfter(c.path, out)
  /\ call' = <<>>
  /\ UNCHANGED <<inputDir, folderExists, fileKind, faults, mainVars, inflight,
                 seqVars, concVars, randVars, histVars, now, sumVars>>

NextExec == ExecCall \/ ExecTick \/ ExecHang \/ ExecRespond

SpecExec == Init /\ [][NextExec]_vars

\* ================================================================= claims
\* The phase of the run has returned to main.
SeqReturned == pc \in {"conc", "rand", "report", "done"} \/ (pc = "crashed" /\ rIndex >= 1)
ConcReturned == pc \in {"rand", "report", "done"} \/ (pc = "crashed" /\ rIndex >= 1)
RandReturned == pc \in {"report", "done"}
\* run_concurrent_test has finished the folder f.
ConcFolderDone(f) == ConcReturned \/ (SeqReturned /\ pc = "conc" /\ cFolder > f)

\* C1: when a generator phase completes, the number of OutcomeRecords it
\* returns equals the number of process_image calls it dispatched, whatever
\* the outcomes of the calls (a crashed worker still yields one record).
C1_RecordsEqualDispatched ==
  /\ SeqReturned => Len(sequential_results) = dispatched["seq"]
  /\ ConcReturned => BagCardinality(concurrent_results) = dispatched["conc"]
  /\ RandReturned => Len(random_results) = dispatched["rand"]

RECURSIVE SumSeq(_)
SumSeq(s) == IF s = <<>> THEN 0 ELSE Head(s) + SumSeq(Tail(s))

\* C2 (as claimed): for a finished grouping with N items the batches
\* partition the items: each item is dispatched exactly once, and the batch
\* with index i has min(level of batch i, items remaining) items.
C2_BatchesPartitionItems ==
  \A f \in FolderIds :
    (ConcFolderDone(f) /\ folderExists[f]) =>
      /\ \A p \in Paths : (p[1] = f /\ FileExists(p)) => dispatchCount[p] = 1
      /\ \A i \in 1..Len(batchSizes[f]) :
           batchSizes[f][i] =
             Min(Min(2 + (i - 1), MAX_CONCURRENT),
                 Len(FolderImages(f)) - SumSeq(SubSeq(batchSizes[f], 1, i - 1)))

\* C2 (amended): for a finished grouping with N >= 1 items there is one batch
\* per concurrency level 2..MAX_CONCURRENT, every batch holds all N items, and
\* so each item is dispatched MAX_CONCURRENT - 1 times, once per level.
C2_EveryLevelDispatchesAll ==
  \A f \in FolderIds :
    (ConcFolderDone(f) /\ folderExists[f] /\ FolderImages(f) # <<>>) =>
      /\ batchSizes[f] = [i \in 1..(MAX_CONCURRENT - 1) |-> Len(FolderImages(f))]
      /\ \A p \in Paths :
           (p[1] = f /\ FileExists(p)) => dispatchCount[p] = MAX_CONCURRENT - 1
      /\ \A w \in 2..MAX_CONCURRENT : <<"concurrent", f, w>> \in csvFiles

\* A grouping of three items has been through all its levels.
C2_Witness ==
  \E f \in FolderIds :
    /\ ConcFolderDone(f) /\ Len(FolderImages(f)) = 3
    /\ batchSizes[f] = <<3, 3>>

\* C3: the batch with index i (from 0) of a grouping runs with concurrency
\* level min(2 + i, MAX_CONCURRENT), the calls it has in flight were started
\* under that level, and every record collected from it carries that level.
C3_LevelOfBatch ==
  (pc = "conc" /\ cpc = "batch") =>
    /\ workers = Min(2 + batchIndex, MAX_CONCURRENT)
    /\ batchIndex = Len(batchSizes[cFolder]) - 1
    /\ \A i \in 1..Len(results) :
         results[i].concurrency = Min(2 + batchIndex, MAX_CONCURRENT)
    /\ \A c \in inflight : c.level = Min(2 + batchIndex, MAX_CONCURRENT)

\* The second batch of a grouping has collected a record.
C3_Witness ==
  /\ pc = "conc" /\ cpc = "batch" /\ batchIndex = 1
  /\ Len(results) >= 1 /\ results[1].concurrency = 3

\* C4: the number of process_image calls that have started and not returned
\* is at most the concurrency bound: workers during a batch of
\* run_concurrent_test, 1 in the other phases.
C4_InFlightBounded ==
  /\ (pc = "conc" /\ cpc = "batch") =>
       /\ Cardinality(inflight) <= workers
       /\ Cardinality(Running) <= workers
  /\ ~(pc = "conc" /\ cpc = "batch") => Cardinality(inflight) <= 1

\* A batch of level 2 has two calls in flight and a third item waiting.
C4_Witness ==
  /\ pc = "conc" /\ cpc = "batch" /\ workers = 2
  /\ Cardinality(inflight) = 2 /\ Pending # {}

\* C5: every call in flight belongs to the phase and to the batch that is
\* running (no request of a later batch or phase starts while one of an
\* earlier is in flight), and the table of a batch or of a phase is written
\* only when none of its requests is in flight.
C5_StrictSequencing ==
  \A c \in inflight :
    /\ c.phase = pc
    /\ c.phase = "conc" =>
         /\ cpc = "batch" /\ c.folder = cFolder /\ c.level = workers
         /\ <<"concurrent", c.folder, c.level>> \notin csvFiles
    /\ c.phase = "seq" => <<"sequential_results", 0, 0>> \notin csvFiles
    /\ c.phase = "rand" => <<"random_results", 0, 0>> \notin csvFiles

\* A call of the second batch is in flight after the first batch was saved.
C5_Witness ==
  /\ pc = "conc" /\ cpc = "batch" /\ batchIndex = 1 /\ inflight # {}
  /\ <<"concurrent", cFolder, 2>> \in csvFiles
  /\ <<"sequential_results", 0, 0>> \in csvFiles

\* C6: a failure of one item never leaves process_image: no exception reaches
\* a generator or the driver, and the run is never aborted by an item.
C6_PerItemIsolation == escaped = {} /\ pc # "crashed"

\* C7: a call whose request ended in a transport error returned normally
\* with status 'error', a non-empty error description and as processing_time
\* the non-negative time from just before the send to the error.
C7_TransportErrorRecorded ==
  \A i \in 1..Len(returned) :
    returned[i].resp \in RequestErrors =>
      /\ returned[i].kind = "return"
      /\ returned[i].rec.status = "error"
      /\ returned[i].rec.error # ""
      /\ returned[i].rec.processing_time = returned[i].observed_at - returned[i].sent_at
      /\ returned[i].rec.processing_time >= 0

\* A call ended in a connection error after the clock had advanced.
C7_Witness ==
  \E i \in 1..Len(returned) :
    /\ returned[i].resp = "ConnectionError"
    /\ returned[i].rec.status = "error"
    /\ returned[i].rec.processing_time > 0

\* C8: a call on a file whose resolution cannot be read returns a record
\* with the resolution unknown, whether the request succeeded or failed.
C8_UnknownResolutionStillRecords ==
  \A i \in 1..Len(returned) :
    fileKind[returned[i].path] = "corrupt" =>
      /\ returned[i].kind = "return"
      /\ returned[i].rec.resolution = "Unknown"

\* The random phase has printed something other than its selection notice.
UnderSampleReported ==
  \E w \in warnings : w[1] = "rand" /\ w[2] # "selected"

\* C9 (as claimed): with fewer items available than the sample size, the
\* random phase fails or reports the condition.
C9_UnderSampleSignalled ==
  (rIndex >= 1 /\ Cardinality(AllImagePaths) < SAMPLE_SIZE) =>
    (pc = "crashed" \/ UnderSampleReported)

\* C9 (amended): the random phase selects min(sample size, available)
\* distinct available items and prints that number; with fewer items
\* available than the sample size it selects every available item, and the
\* shortfall raises no error and no report of its own.
C9_SamplesWhatIsAvailable ==
  rIndex >= 1 =>
    /\ Len(selected_images) = Min(SAMPLE_SIZE, Cardinality(AllImagePaths))
    /\ \A i, j \in 1..Len(selected_images) :
         i # j => selected_images[i] # selected_images[j]
    /\ \A i \in 1..Len(selected_images) : selected_images[i] \in AllImagePaths
    /\ <<"rand", "selected", Len(selected_images), 0>> \in warnings
    /\ Cardinality(AllImagePaths) < SAMPLE_SIZE =>
         /\ {selected_images[i] : i \in 1..Len(selected_images)} = AllImagePaths
         /\ ~UnderSampleReported
         /\ RandReturned => Len(random_results) = Cardinality(AllImagePaths)

\* The run ended after a random phase that had one item to sample.
C9_Witness ==
  /\ pc = "done" /\ Cardinality(AllImagePaths) = 1
  /\ Len(selected_images) = 1 /\ Len(random_results) = 1

\* ------------------------------------------------------- generate_summary
\* The grouping keys in the order of Python's string comparison
\* ("w1080" < "w512"), the order DataFrame.groupby iterates its groups in.
SortedFolders == <<"w1080", "w512">>

\* A statistic: NaN, or the number num/den.
NaN == [nan |-> TRUE, num |-> 0, den |-> 1]
Number(n, d) == [nan |-> FALSE, num |-> n, den |-> d]

RECURSIVE Total(_)
Total(s) == IF s = <<>> THEN 0 ELSE Head(s) + Total(Tail(s))

RECURSIVE Insert(_, _)
Insert(x, s) ==
  IF s = <<>> THEN <<x>>
  ELSE IF x <= Head(s) THEN <<x>> \o s ELSE <<Head(s)>> \o Insert(x, Tail(s))
RECURSIVE Sorted(_)
Sorted(s) == IF s = <<>> THEN <<>> ELSE Insert(Head(s), Sorted(Tail(s)))

\* Series.mean(), .min(), .max(), .median(): NaN on an empty series.
Mean(s) == IF s = <<>> THEN NaN ELSE Number(Total(s), Len(s))
MinOf(s) == IF s = <<>> THEN NaN ELSE Number(Sorted(s)[1], 1)
MaxOf(s) == IF s = <<>> THEN NaN ELSE Number(Sorted(s)[Len(s)], 1)
Median(s) ==
  IF s = <<>> THEN NaN
  ELSE IF Len(s) % 2 = 1 THEN Number(Sorted(s)[(Len(s) + 1) \div 2], 1)
  ELSE Number(Sorted(s)[Len(s) \div 2] + Sorted(s)[Len(s) \div 2 + 1], 2)

\* df[df['status'] == 'success']
IsSuccess(r) == r.status = "success"
Successes(rows) == SelectSeq(rows, IsSuccess)
IsError(r) == r.status = "error"
ProcessingTimes(rows) == [i \in 1..Len(rows) |-> rows[i].processing_time]
FileSizes(rows) == [i \in 1..Len(rows) |-> rows[i].file_size]

\* LatencyRows without the filter on the status.
LatencyRowsAll(rows) == rows
\* The rows the latency statistics of a summary row are computed over.
LatencyRows(rows) == Successes(rows)
\* The rows the average size of a summary row is computed over.
SizeRows(rows) == rows

\* One row of the summary: the dict built for 'All' and for each folder.
SummaryRow(name, rows) ==
  [folder |-> name,
   total_images |-> Len(rows),
   successful |-> Len(SelectSeq(rows, IsSuccess)),
   failed |-> Len(SelectSeq(rows, IsError)),
   avg_time |-> Mean(ProcessingTimes(LatencyRows(rows))),
   min_time |-> MinOf(ProcessingTimes(LatencyRows(rows))),
   max_time |-> MaxOf(ProcessingTimes(LatencyRows(rows))),
   median_time |-> Median(ProcessingTimes(LatencyRows(rows))),
   avg_size_mb |-> Mean(FileSizes(SizeRows(rows)))]

\* df.groupby('folder'): the keys present, sorted, and the rows of a key.
GroupKeys(rows) ==
  SelectSeq(SortedFolders, LAMBDA k : \E i \in 1..Len(rows) : rows[i].folder = k)
GroupRows(rows, k) == SelectSeq(rows, LAMBDA r : r.folder = k)

\* SummaryIsBuilt without the guard on successful results.
SummaryAlwaysBuilt(recs) == recs = recs

\* if not df[df['status'] == 'success'].empty: the summary is built.
SummaryIsBuilt(recs) == Successes(recs) # <<>>

\* generate_summary(recs): None for no results, an empty DataFrame when
\* the summary is skipped, else the 'All' row followed by a row per folder.
generate_summary(recs) ==
  IF recs = <<>> THEN [kind |-> "None", rows |-> <<>>]
  ELSE IF SummaryIsBuilt(recs)
  THEN [kind |-> "frame",
        rows |-> <<SummaryRow("All", recs)>> \o
                 [i \in 1..Len(GroupKeys(recs)) |->
                    SummaryRow(GroupKeys(recs)[i],
                               GroupRows(recs, GroupKeys(recs)[i]))]]
  ELSE [kind |-> "frame", rows |-> <<>>]

\* The records generate_summary is given: the columns it reads.
SummaryRecords ==
  [folder : {FOLDERS[f] : f \in FolderIds}, status : {"success", "error"},
   processing_time : 1..MaxDuration, file_size : 1..MaxSizeMB]

\* Ten successes of "w512" with durations 0.5 0.6 0.4 0.7 0.5 0.6 0.5 0.6 0.4
\* 0.7 s (in tenths of a second).
ExampleW512 ==
  [i \in 1..10 |->
     [folder |-> "w512", status |-> "success",
      processing_time |-> <<5, 6, 4, 7, 5, 6, 5, 6, 4, 7>>[i], file_size |-> 1]]

InitSummary ==
  /\ inputDir = TRUE
  /\ folderExists = [f \in FolderIds |-> TRUE]
  /\ fileKind = [p \in Paths |-> "ok"]
  /\ faults = 0 /\ outFiles = {}
  /\ InitRun /\ InitExec
  /\ sum_results \in
       UNION {[1..n -> SummaryRecords] : n \in 0..MaxRecords} \cup {ExampleW512}
  /\ summary_df = NoSummary /\ spc = "input" /\ printed = <<>>

runVars == <<envVars, mainVars, inflight, seqVars, concVars, randVars, histVars,
             execVars>>

\* summary_df = generate_summary(all_results)
SumCall ==
  /\ spc = "input"
  /\ summary_df' = generate_summary(sum_results)
  /\ spc' = "summarized"
  /\ UNCHANGED <<runVars, sum_results, printed>>

\* if summary_df is not None and not summary_df.empty
SummaryIsShown(df) == df.kind = "frame" /\ df.rows # <<>>

\* The condition is false: no summary.csv, nothing printed.
SumSkip ==
  /\ spc = "summarized" /\ ~SummaryIsShown(summary_df)
  /\ spc' = "printed"
  /\ UNCHANGED <<runVars, sum_results, summary_df, printed>>

\* row['successful'] / row['total_images'] raises ZeroDivisionError on a row
\* without records.
PrintRaises(row) == row.total_images = 0

\* LatencyPrinted without the isna guard.
LatencyAlwaysPrinted(row) == row = row

\* if not pd.isna(row['avg_time']): the latency lines are printed.
LatencyPrinted(row) == ~row.avg_time.nan

\* One iteration of for _, row in summary_df.iterrows(): the lines printed.
SumPrintRow ==
  /\ spc = "summarized" /\ SummaryIsShown(summary_df)
  /\ Len(printed) < Len(summary_df.rows)
  /\ LET row == summary_df.rows[Len(printed) + 1] IN
       IF PrintRaises(row)
       THEN spc' = "raised" /\ UNCHANGED printed
       ELSE /\ printed' = Append(printed,
                 [folder |-> row.folder, total_images |-> row.total_images,
                  successful |-> row.successful, failed |-> row.failed,
                  latency |-> LatencyPrinted(row)])
            /\ UNCHANGED spc
  /\ UNCHANGED <<runVars, sum_results, summary_df>>

\* The loop is over.
SumPrintDone ==
  /\ spc = "summarized" /\ SummaryIsShown(summary_df)
  /\ Len(printed) = Len(summary_df.rows)
  /\ spc' = "printed"
  /\ UNCHANGED <<runVars, sum_results, summary_df, printed>>

NextSummary == SumCall \/ SumSkip \/ SumPrintRow \/ SumPrintDone

SpecSummary == InitSummary /\ [][NextSummary]_vars

\* ------------------------------------------------ claims on the summary
\* The indices of the records of sum_results that belong to the row k.
RowIndices(k) ==
  {i \in 1..Len(sum_results) : k = "All" \/ sum_results[i].folder = k}
SuccessIndices(k) == {i \in RowIndices(k) : sum_results[i].status = "success"}
FoldersPresent == {sum_results[i].folder : i \in 1..Len(sum_results)}
RowsOf(k) == {i \in 1..Len(summary_df.rows) : summary_df.rows[i].folder = k}

\* C11 (as claimed): for a non-empty list of records the summary has exactly
\* one row per folder present and exactly one row 'All', whatever the
\* statuses.
C11_RowPerGroupAndOverall ==
  (spc # "input" /\ sum_results # <<>>) =>
    /\ summary_df.kind = "frame"
    /\ Len(summary_df.rows) = Cardinality(FoldersPresent) + 1
    /\ \A k \in FoldersPresent \cup {"All"} : Cardinality(RowsOf(k)) = 1

\* C11 (amended): for a non-empty list with at least one successful record
\* the summary has exactly one row per folder present and exactly one row
\* 'All'; when every record is an error the summary has no row at all.
C11_RowsWhenSomeSuccess ==
  (spc # "input" /\ sum_results # <<>>) =>
    /\ summary_df.kind = "frame"
    /\ SuccessIndices("All") # {} =>
         /\ Len(summary_df.rows) = Cardinality(FoldersPresent) + 1
         /\ \A k \in FoldersPresent \cup {"All"} : Cardinality(RowsOf(k)) = 1
    /\ SuccessIndices("All") = {} => summary_df.rows = <<>>

\* A summary of two folders, one of them without a success.
C11_Witness ==
  /\ spc = "summarized" /\ Cardinality(FoldersPresent) = 2
  /\ Len(summary_df.rows) = 3
  /\ \E k \in FoldersPresent : SuccessIndices(k) = {}

\* The folder k is reported with its counts and without latency figures.
ReportedWithoutLatency(k) ==
  /\ \E i \in RowsOf(k) :
       /\ summary_df.rows[i].total_images = Cardinality(RowIndices(k))
       /\ summary_df.rows[i].successful = 0
       /\ summary_df.rows[i].failed = Cardinality(RowIndices(k))
       /\ summary_df.rows[i].avg_time.nan /\ summary_df.rows[i].min_time.nan
       /\ summary_df.rows[i].max_time.nan /\ summary_df.rows[i].median_time.nan
  /\ spc = "printed" =>
       \E j \in 1..Len(printed) :
         /\ printed[j].folder = k /\ ~printed[j].latency
         /\ printed[j].total_images = Cardinality(RowIndices(k))
         /\ printed[j].successful = 0
         /\ printed[j].failed = Cardinality(RowIndices(k))

\* C12 (as claimed): a grouping without a successful record makes neither
\* generate_summary nor the printing raise; its latency statistics are the
\* not-applicable value and its counts are reported.
C12_ZeroSuccessGroupReported ==
  /\ spc # "raised"
  /\ spc \in {"summarized", "printed"} =>
       \A k \in FoldersPresent : SuccessIndices(k) = {} => ReportedWithoutLatency(k)

\* C12 (amended): nothing raises; when at least one record of the run
\* succeeded, a grouping without a successful record is reported with its
\* counts and NaN latency statistics, the latency lines left out; when no
\* record of the run succeeded, the summary is skipped and no count of any
\* grouping is reported.
C12_ZeroSuccessGroupWhenSomeSuccess ==
  /\ spc # "raised"
  /\ (spc \in {"summarized", "printed"} /\ SuccessIndices("All") # {}) =>
       \A k \in FoldersPresent : SuccessIndices(k) = {} => ReportedWithoutLatency(k)
  /\ (spc \in {"summarized", "printed"} /\ SuccessIndices("All") = {}) =>
       summary_df.rows = <<>> /\ printed = <<>>

\* The rows were printed for a run with a grouping without a success.
C12_Witness ==
  /\ spc = "printed" /\ Len(printed) = 3
  /\ \E k \in FoldersPresent : SuccessIndices(k) = {}

RECURSIVE SumAt(_, _)
\* The sum of s[i] over the indices i of I.
SumAt(s, I) ==
  IF I = {} THEN 0
  ELSE LET i == CHOOSE x \in I : TRUE IN s[i] + SumAt(s, I \ {i})

TimeAt(i) == sum_results[i].processing_time

\* x is the statistic of value n/d.
IsRatio(x, n, d) == ~x.nan /\ x.num * d = n * x.den

\* x is the median of the processing times at the indices S.
IsMedianOf(x, S) ==
  IF Cardinality(S) % 2 = 1
  THEN \E a \in S :
         /\ IsRatio(x, TimeAt(a), 1)
         /\ 2 * Cardinality({i \in S : TimeAt(i) < TimeAt(a)}) < Cardinality(S)
         /\ 2 * Cardinality({i \in S : TimeAt(i) > TimeAt(a)}) < Cardinality(S)
  ELSE \E a, b \in S :
         /\ a # b /\ TimeAt(a) <= TimeAt(b)
         /\ IsRatio(x, TimeAt(a) + TimeAt(b), 2)
         /\ 2 * Cardinality({i \in S \ {a, b} : TimeAt(i) <= TimeAt(a)}) >= Cardinality(S) - 2
         /\ 2 * Cardinality({i \in S \ {a, b} : TimeAt(i) >= TimeAt(b)}) >= Cardinality(S) - 2

\* C13: in every summary row the counts are those of the row's records, the
\* mean, min, max and median of the time are taken over exactly the row's
\* successful records (NaN when there is none) and the average size over
\* all the row's records; the ten durations of the example give successful
\* 10, failed 0, mean 0.55, min 0.4, max 0.7 and median 0.55.
C13_StatisticsOverTheRightRecords ==
  spc # "input" =>
    /\ \A r \in 1..Len(summary_df.rows) :
         LET row == summary_df.rows[r]
             A == RowIndices(row.folder)
             S == SuccessIndices(row.folder) IN
         /\ row.total_images = Cardinality(A)
         /\ row.successful = Cardinality(S)
         /\ row.failed = Cardinality(A \ S)
         /\ IsRatio(row.avg_size_mb,
                    SumAt([i \in 1..Len(sum_results) |-> sum_results[i].file_size], A),
                    Cardinality(A))
         /\ IF S = {}
            THEN /\ row.avg_time.nan /\ row.min_time.nan
                 /\ row.max_time.nan /\ row.median_time.nan
            ELSE /\ IsRatio(row.avg_time,
                            SumAt([i \in 1..Len(sum_results) |-> TimeAt(i)], S),
                            Cardinality(S))
                 /\ \E a \in S : /\ IsRatio(row.min_time, TimeAt(a), 1)
                                 /\ \A i \in S : TimeAt(a) <= TimeAt(i)
                 /\ \E a \in S : /\ IsRatio(row.max_time, TimeAt(a), 1)
                                 /\ \A i \in S : TimeAt(a) >= TimeAt(i)
                 /\ IsMedianOf(row.median_time, S)
    /\ sum_results = ExampleW512 =>
         /\ Len(summary_df.rows) = 2
         /\ \A r \in 1..2 :
              /\ summary_df.rows[r].successful = 10
              /\ summary_df.rows[r].failed = 0
              /\ IsRatio(summary_df.rows[r].avg_time, 55, 10)
              /\ IsRatio(summary_df.rows[r].min_time, 4, 1)
              /\ IsRatio(summary_df.rows[r].max_time, 7, 1)
              /\ IsRatio(summary_df.rows[r].median_time, 55, 10)

\* A row covers a success and an error whose times differ.
C13_Witness ==
  /\ spc = "summarized"
  /\ \E r \in 1..Len(summary_df.rows) :
       /\ summary_df.rows[r].successful = 1 /\ summary_df.rows[r].failed = 1
       /\ \E i, j \in RowIndices(summary_df.rows[r].folder) :
            /\ sum_results[i].status = "success" /\ sum_results[j].status = "error"
            /\ TimeAt(i) # TimeAt(j)
            /\ sum_results[i].file_size # sum_results[j].file_size

\* C14: a request the endpoint never answers is still ended (by a
\* per-request timeout): the call under way can always return, so that its
\* worker is released and the batch and the run can complete.
C14_HungRequestStillEnds == call # <<>> => ENABLED ExecRespond

\* The position of the key k in the list order.
PositionIn(order, k) == CHOOSE i \in 1..Len(order) : order[i] = k
\* Ascending width, as the source lists the folders.
DeclaredOrder == <<"w512", "w1080">>

\* In the list order: the records of sequential_results go by grouping in
\* that order, each grouping's items by ascending index, and
\* run_concurrent_test starts a grouping only when every grouping before it
\* in that order that has images is finished.
VisitedInOrder(order) ==
  /\ \A i, j \in 1..Len(sequential_results) :
       i < j =>
         \/ PositionIn(order, sequential_results[i].folder)
              < PositionIn(order, sequential_results[j].folder)
         \/ /\ sequential_results[i].folder = sequential_results[j].folder
            /\ sequential_results[i].filename < sequential_results[j].filename
  /\ \A f, g \in FolderIds :
       (/\ PositionIn(order, FOLDERS[g]) < PositionIn(order, FOLDERS[f])
        /\ batchSizes[f] # <<>> /\ FolderImages(g) # <<>>) =>
         /\ Len(batchSizes[g]) = MAX_CONCURRENT - 1
         /\ \A w \in 2..MAX_CONCURRENT : <<"concurrent", g, w>> \in csvFiles

\* C15 (as claimed): the groupings are visited in lexicographic order of
\* their key in the sequential and the concurrent phase, and the records of
\* the sequential phase appear in that order, items in enumeration order.
C15_LexicographicOrder == VisitedInOrder(SortedFolders)

\* C15 (amended): the same with the order in which FOLDERS lists the keys
\* (ascending width: w512 before w1080), which is not the lexicographic one.
C15_DeclaredOrder == VisitedInOrder(DeclaredOrder)

\* Both groupings are in sequential_results and the second grouping of the
\* concurrent phase has started.
C15_Witness ==
  /\ Len(sequential_results) = 2 * NumImages
  /\ sequential_results[1].folder = "w512"
  /\ sequential_results[2 * NumImages].folder = "w1080"
  /\ batchSizes[1] # <<>> /\ batchSizes[2] # <<>>

\* The records of sequential_results for the image p.
SeqRecordsOf(p) ==
  {i \in 1..Len(sequential_results) :
     /\ sequential_results[i].folder = FOLDERS[p[1]]
     /\ sequential_results[i].filename = p[2]}

\* Nothing but missing folders or files is wrong with the input tree.
OnlyMissing == inputDir /\ \A p \in Paths : fileKind[p] # "corrupt"

\* C16: without the root input directory main aborts with a diagnostic: no
\* phase starts, no request is sent, no table is written. When only folders
\* or files are missing, the run is not aborted, each missing folder and file
\* is skipped with a warning and never dispatched, and every available item
\* is processed by each phase that has returned.
C16_MissingInputs ==
  /\ ~inputDir =>
       /\ pc \in {"main", "aborted"}
       /\ pc = "aborted" => <<"main", "no_input_dir", 0, 0>> \in warnings
       /\ inflight = {} /\ csvFiles = {} /\ outFiles = {}
       /\ \A ph \in DOMAIN dispatched : dispatched[ph] = 0
       /\ sequential_results = <<>> /\ all_results = EmptyBag
  /\ OnlyMissing =>
       /\ pc \notin {"aborted", "crashed"}
       /\ \A p \in Paths :
            ~FileExists(p) => (SeqRecordsOf(p) = {} /\ dispatchCount[p] = 0)
       /\ \A i \in 1..Len(selected_images) : FileExists(selected_images[i])
       /\ SeqReturned =>
            /\ \A p \in AllImagePaths : Cardinality(SeqRecordsOf(p)) = 1
            /\ \A f \in FolderIds :
                 ~folderExists[f] => <<"seq", "folder_missing", f, 0>> \in warnings
            /\ \A p \in Paths :
                 (folderExists[p[1]] /\ ~FileExists(p)) =>
                   <<"seq", "image_missing", p[1], p[2]>> \in warnings
       /\ ConcReturned =>
            /\ \A p \in AllImagePaths : dispatchCount[p] = MAX_CONCURRENT - 1
            /\ \A f \in FolderIds :
                 ~folderExists[f] => <<"conc", "folder_missing", f, 0>> \in warnings
       /\ RandReturned =>
            Len(random_results) = Min(SAMPLE_SIZE, Cardinality(AllImagePaths))

\* A run ended on a tree with one missing file, the others all processed.
C16_Witness ==
  /\ pc = "done"
  /\ \E p \in Paths : folderExists[p[1]] /\ ~FileExists(p)
  /\ Len(sequential_results) = 2 * NumImages - 1

\* C17: process_image writes the output file only after a success status: a
\* call that returned 'success' has written exactly the output file of its
\* item (created or overwritten), a call that returned 'error' has written
\* nothing and left every output file as it was.
C17_OutputOnlyOnSuccess ==
  \A i \in 1..Len(returned) :
    LET r == returned[i] IN
    /\ r.wrote => r.resp = "ok"
    /\ (r.kind = "return" /\ r.rec.status = "success") =>
         /\ r.wrote
         /\ r.outputs_after = r.outputs_before \cup {OutputPath(r.path)}
    /\ (r.kind = "return" /\ r.rec.status = "error") =>
         /\ ~r.wrote
         /\ r.outputs_after = r.outputs_before

\* A successful call created the output file and a later call for the same
\* item ended in an error with that file in place.
C17_Witness ==
  /\ Len(returned) = 2
  /\ returned[1].path = returned[2].path
  /\ returned[1].rec.status = "success" /\ ~returned[1].had_output
  /\ returned[2].rec.status = "error" /\ returned[2].had_output
  /\ OutputPath(returned[2].path) \in outFiles

\* The calls of the random phase that have started and not returned.
RandInFlight == {c \in inflight : c.phase = "rand"}

\* random.sample: no image appears twice in the sample, and every sampled
\* image is one of the images found.
SampleWithoutReplacement ==
  /\ \A i, j \in 1..Len(selected_images) :
       selected_images[i] = selected_images[j] => i = j
  /\ \A i \in 1..Len(selected_images) : selected_images[i] \in AllImagePaths

\* C18 as stated: the sample has no repeated item and is dispatched at a
\* concurrency level equal to the sample size, so a sampled item that has
\* not started can start while earlier sampled requests are in flight.
C18_SampleDispatchedTogether ==
  /\ SampleWithoutReplacement
  /\ (pc = "rand" /\ rIndex >= 1 /\ dispatched["rand"] < Len(selected_images))
       => ENABLED RandStart

\* C18 amended: the sample has no repeated item and is processed one item at
\* a time in the order of the sample: at most one sampled request is in
\* flight, and it starts only after every earlier one has returned.
C18_SampleProcessedOneByOne ==
  /\ SampleWithoutReplacement
  /\ Cardinality(RandInFlight) <= 1
  /\ \A c \in RandInFlight :
       /\ Len(random_results) = dispatched["rand"] - 1
       /\ c.path = selected_images[dispatched["rand"]]

\* The second item of a sample of two is in flight after the first returned.
C18_Witness ==
  /\ pc = "rand" /\ Len(selected_images) = SAMPLE_SIZE
  /\ RandInFlight # {}
  /\ dispatched["rand"] = 2 /\ Len(random_results) = 1

\* The futures of the batch whose record the collecting thread has taken.
CollectedRecords ==
  {k \in DOMAIN futures : futures[k].st = "collected" /\ futures[k].out.kind = "return"}

\* C19: during a batch the result list holds exactly the records the
\* collecting thread has taken from finished futures, each once and each
\* tagged with the level of the batch, whatever the order in which the
\* workers finished: a worker that is running or has finished without being
\* collected has put nothing in the list.
C19_OnlyCollectorAppends ==
  (pc = "conc" /\ cpc = "batch") =>
    /\ Len(results) = Cardinality(CollectedRecords)
    /\ \A k \in CollectedRecords :
         Cardinality({i \in 1..Len(results) :
                        results[i] = WithConcurrency(futures[k].out.rec, workers)}) = 1
    /\ \A i \in 1..Len(results) :
         /\ results[i].concurrency = workers
         /\ \E k \in CollectedRecords :
              results[i] = WithConcurrency(futures[k].out.rec, workers)

\* Two workers finished in the reverse of the submission order and both
\* records were collected while a third call is still running.
C19_Witness ==
  /\ pc = "conc" /\ cpc = "batch"
  /\ Len(results) = 2
  /\ results[1].filename > results[2].filename
  /\ Running # {}

\* C20: no two process_image calls that are in flight, and no two items
\* submitted together in one batch, have the same output path.
C20_DistinctOutputPaths ==
  /\ \A c, d \in inflight :
       OutputPath(c.path) = OutputPath(d.path) => c = d
  /\ \A j, k \in DOMAIN futures :
       OutputPath(futures[j].path) = OutputPath(futures[k].path) => j = k

\* Every item of a batch is in flight at the highest level.
C20_Witness ==
  /\ pc = "conc" /\ cpc = "batch" /\ workers = MAX_CONCURRENT
  /\ Cardinality(Running) = MAX_CONCURRENT
  /\ Cardinality(inflight) = MAX_CONCURRENT

====
